---- MODULE Spec2Model ----
(***************************************************************************)
(* SceneModuleManagerInterface (behavior_path_planner_common): the         *)
(* manager's observer list of weak references, its idle module instance,   *)
(* and the aggregation (publish) passes over the observed instances.       *)
(*                                                                         *)
(* A module instance is named by a handle 1..NumInst (its control block).  *)
(* owner[i] says who keeps instance i alive:                               *)
(*   "none"   - not constructed, or destroyed: every weak_ptr to it is     *)
(*              expired;                                                   *)
(*   "unique" - held by the manager's idle_module_ptr_ (unique_ptr);       *)
(*   "shared" - held by the external owner's shared_ptr.                   *)
(* A handle is reused for a new instance only when no weak reference to    *)
(* the old one is left in observers_.                                      *)
(***************************************************************************)
EXTENDS Integers, Sequences, FiniteSets, TLC

\* ------------------------------------------------------------------ bounds
NumInst == 3
MaxObs == 3

Null == 0
Inst == 1..NumInst
Handle == Inst \cup {Null}

\* planner data snapshots (0 is the null shared_ptr) and previous outputs
PlannerData == {0, 1}
PrevOutput == {1}

\* std::numeric_limits<uint8_t>::max()
marker_offset == 255

VARIABLES
  owner,             \* [Inst -> {"none","unique","shared"}]
  module,            \* [Inst -> the instance's query surface]
  observers_,        \* std::vector<SceneModuleObserver>
  idle_module_ptr_,  \* std::unique_ptr<SceneModuleInterface>
  planner_data_,     \* std::shared_ptr<PlannerData>
  crashed,           \* the process died on a null dereference
  config_,           \* ModuleConfigParameters
  ev                 \* the last operation: name, argument, result, the calls
                     \* it made on instances and the batches it published

vars == <<owner, module, observers_, idle_module_ptr_, planner_data_, crashed, config_, ev>>

\* ------------------------------------------------------- sequence helpers
Range(s) == {s[k] : k \in 1..Len(s)}

\* --------------------------------------------------- weak_ptr / shared_ptr
\* std::weak_ptr::expired()
expired(o) == o = Null \/ owner[o] # "shared"

\* std::weak_ptr::lock(): the instance, or a null shared_ptr
lock(o) == IF expired(o) THEN Null ELSE o

\* ------------------------------------------------ the instance's outputs
\* What an instance reports after it planned: factor classifications, the
\* optional wall poses, and the local identifiers of its marker sets.
Planned ==
  { [steering |-> "LANE_CHANGE", velocity |-> "UNKNOWN",
     stop |-> TRUE, slow |-> TRUE, dead |-> TRUE,
     wall |-> <<0>>, info |-> <<0, 1>>, debug |-> <<0>>, lanes |-> <<0>>],
    [steering |-> "UNKNOWN", velocity |-> "AVOIDANCE",
     stop |-> FALSE, slow |-> FALSE, dead |-> FALSE,
     wall |-> <<>>, info |-> <<0, 255>>, debug |-> <<>>, lanes |-> <<1>>] }

\* a freshly constructed instance: nothing to report
NoOutput ==
  [steering |-> "UNKNOWN", velocity |-> "UNKNOWN",
   stop |-> FALSE, slow |-> FALSE, dead |-> FALSE,
   wall |-> <<>>, info |-> <<>>, debug |-> <<>>, lanes |-> <<>>]

\* A module's wall poses after resetWallPoses(): stop/slow/dead cleared.
resetWallPoses(p) == [p EXCEPT !.stop = FALSE, !.slow = FALSE, !.dead = FALSE]

\* One published element: a factor (kind = its classification) or a marker.
Item(src, kind, id) == [src |-> src, kind |-> kind, id |-> id]

\* One call made on a module instance (on = Null: through a null pointer).
Call(m, on, a) == [m |-> m, on |-> on, a |-> a]

\* ------------------------------------------------- aggregation passes
RECURSIVE SteeringFactors_unfiltered(_)
\* variant: the UNKNOWN test is missing, every live entry yields a factor
SteeringFactors_unfiltered(obs) ==
  IF obs = <<>> THEN <<>>
  ELSE LET m == Head(obs) IN
       (IF expired(m) THEN <<>>
        ELSE <<Item(lock(m), module[lock(m)].steering, 0)>>)
       \o SteeringFactors_unfiltered(Tail(obs))

RECURSIVE SteeringFactors(_)
\* publishSteeringFactor: the factors array built by the loop
SteeringFactors(obs) ==
  IF obs = <<>> THEN <<>>
  ELSE LET m == Head(obs) IN
       (IF expired(m) THEN <<>>
        ELSE IF module[lock(m)].steering # "UNKNOWN"
             THEN <<Item(lock(m), module[lock(m)].steering, 0)>>
             ELSE <<>>)
       \o SteeringFactors(Tail(obs))

RECURSIVE VelocityFactors(_)
\* publishVelocityFactor: the factors array built by the loop
VelocityFactors(obs) ==
  IF obs = <<>> THEN <<>>
  ELSE LET m == Head(obs) IN
       (IF expired(m) THEN <<>>
        ELSE IF module[lock(m)].velocity # "UNKNOWN"
             THEN <<Item(lock(m), module[lock(m)].velocity, 0)>>
             ELSE <<>>)
       \o VelocityFactors(Tail(obs))

RECURSIVE GetterCalls(_, _)
\* the calls a pass makes: getters on every entry that is not expired
GetterCalls(obs, getters) ==
  IF obs = <<>> THEN <<>>
  ELSE LET m == Head(obs) IN
       (IF expired(m) THEN <<>>
        ELSE [k \in 1..Len(getters) |-> Call(getters[k], lock(m), 0)])
       \o GetterCalls(Tail(obs), getters)

\* the markers one instance contributes to publishVirtualWall
WallOf(i, marker_id) ==
  (IF module[i].stop THEN <<Item(i, "stop", marker_id)>> ELSE <<>>)
  \o (IF module[i].slow THEN <<Item(i, "slow", marker_id)>> ELSE <<>>)
  \o (IF module[i].dead THEN <<Item(i, "dead", marker_id)>> ELSE <<>>)
  \o [k \in 1..Len(module[i].wall) |-> Item(i, "module", module[i].wall[k])]

RECURSIVE VirtualWall(_, _)
\* publishVirtualWall: the marker array built by the loop
VirtualWall(obs, marker_id) ==
  IF obs = <<>> THEN <<>>
  ELSE LET m == Head(obs) IN
       (IF expired(m) THEN <<>> ELSE WallOf(lock(m), marker_id))
       \o VirtualWall(Tail(obs), marker_id)

\* the markers of one set of one instance, each id offset by marker_id
\* (uint32_t marker_id = 255 * rank and int32 marker.id: neither wraps for
\* an observers_ of fewer than 2^23 live entries)
OffsetMarkers(i, set, marker_id) ==
  [k \in 1..Len(module[i][set]) |->
     Item(i, set, module[i][set][k] + marker_id)]

RECURSIVE Markers_one_block(_, _, _)
\* variant: marker_id is never advanced, every instance shares one block
Markers_one_block(obs, set, marker_id) ==
  IF obs = <<>> THEN <<>>
  ELSE LET m == Head(obs) IN
       IF expired(m) THEN Markers_one_block(Tail(obs), set, marker_id)
       ELSE OffsetMarkers(lock(m), set, marker_id)
            \o Markers_one_block(Tail(obs), set, marker_id)

RECURSIVE Markers(_, _, _)
\* publishMarker: one of the three marker arrays built by the loop
Markers(obs, set, marker_id) ==
  IF obs = <<>> THEN <<>>
  ELSE LET m == Head(obs) IN
       IF expired(m) THEN Markers(Tail(obs), set, marker_id)
       ELSE OffsetMarkers(lock(m), set, marker_id)
            \o Markers(Tail(obs), set, marker_id + marker_offset)

\* publishMarker: the idle instance's markers, appended as they are
IdleMarkers(obs, set) ==
  IF obs = <<>> /\ idle_module_ptr_ # Null
  THEN [k \in 1..Len(module[idle_module_ptr_][set]) |->
          Item(idle_module_ptr_, set, module[idle_module_ptr_][set][k])]
  ELSE <<>>

IdleMarkerCalls(obs) ==
  IF obs = <<>> /\ idle_module_ptr_ # Null
  THEN <<Call("getInfoMarkers", idle_module_ptr_, 0),
         Call("getDebugMarkers", idle_module_ptr_, 0),
         Call("getDrivableLanesMarkers", idle_module_ptr_, 0)>>
  ELSE <<>>

Pub(ch, batch) == [ch |-> ch, batch |-> batch]

\* ------------------------------------------------------------ the state
Event(op, arg, prev, ret, calls, pubs) ==
  [op |-> op, arg |-> arg, prev |-> prev, ret |-> ret, calls |-> calls, pubs |-> pubs]

Init ==
  /\ owner = [i \in Inst |-> "none"]
  /\ module = [i \in Inst |-> NoOutput]
  /\ observers_ = <<>>
  /\ idle_module_ptr_ = Null
  /\ planner_data_ = 0
  /\ crashed = FALSE
  /\ config_ = [enable_simultaneous_execution_as_approved_module |-> FALSE,
                enable_simultaneous_execution_as_candidate_module |-> FALSE]
  /\ ev = Event("init", Null, 0, "none", <<>>, <<>>)

\* a handle no shared_ptr, unique_ptr or weak_ptr refers to; a new instance
\* takes the least free handle
Free(i) == owner[i] = "none" /\ i \notin Range(observers_)

Bool(b) == IF b THEN "true" ELSE "false"

\* --------------------------------------------------- manager operations
\* setData(planner_data)
setData(p) ==
  /\ ~crashed
  /\ planner_data_' = p
  /\ ev' = Event("setData", Null, p, "none", <<>>, <<>>)
  /\ UNCHANGED <<owner, module, observers_, idle_module_ptr_, crashed, config_>>

\* updateIdleModuleInstance(): declared here, defined in the .cpp file; the
\* "ensure populated" step: creates the idle instance when the slot is empty.
updateIdleModuleInstance ==
  /\ ~crashed
  /\ IF idle_module_ptr_ # Null
     THEN UNCHANGED <<owner, module, idle_module_ptr_>>
     ELSE \E i \in Inst :
            /\ Free(i)
            /\ \A j \in Inst : Free(j) => i <= j
            /\ owner' = [owner EXCEPT ![i] = "unique"]
            /\ module' = [module EXCEPT ![i] = NoOutput]
            /\ idle_module_ptr_' = i
  /\ ev' = Event("updateIdleModuleInstance", Null, 0, "none", <<>>, <<>>)
  /\ UNCHANGED <<observers_, planner_data_, crashed, config_>>

\* the calls isExecutionRequested makes through idle_module_ptr_
isExecutionRequested_calls(prev) ==
  <<Call("setData", idle_module_ptr_, planner_data_),
    Call("setPreviousModuleOutput", idle_module_ptr_, prev),
    Call("updateData", idle_module_ptr_, 0),
    Call("isExecutionRequested", idle_module_ptr_, 0)>>

\* isExecutionRequested(previous_module_output): const, dereferences
\* idle_module_ptr_ as it is. updateData() lets the idle instance recompute
\* its outputs (p). With a null idle_module_ptr_ the behaviour is undefined:
\* the process dies, or goes on with some result.
isExecutionRequested(prev, r, dies, p) ==
  /\ ~crashed
  /\ ev' = Event("isExecutionRequested", idle_module_ptr_, prev, Bool(r),
                 isExecutionRequested_calls(prev), <<>>)
  /\ IF idle_module_ptr_ = Null
     THEN /\ crashed' = dies
          /\ p = NoOutput
          /\ UNCHANGED module
     ELSE /\ dies = FALSE
          /\ crashed' = FALSE
          /\ module' = [module EXCEPT ![idle_module_ptr_] = p]
  /\ UNCHANGED <<owner, observers_, idle_module_ptr_, planner_data_, config_>>

\* variant: the pointer is handed out and kept (get() instead of a move)
moved_from_kept(ptr) == ptr

\* a unique_ptr after std::move(ptr): null
moved_from(ptr) == Null

\* getIdleModule(): std::move(idle_module_ptr_) into the returned shared_ptr
\* (the event's arg is the instance returned)
getIdleModule ==
  /\ ~crashed
  /\ ev' = Event("getIdleModule", idle_module_ptr_, 0, "none", <<>>, <<>>)
  /\ owner' = [i \in Inst |-> IF i = idle_module_ptr_ THEN "shared" ELSE owner[i]]
  /\ idle_module_ptr_' = moved_from(idle_module_ptr_)
  /\ UNCHANGED <<module, observers_, planner_data_, crashed, config_>>

\* variant: onEntry() runs before the planner data and the previous
\* module's output are set
registerNewModule_calls_entry_first(observer, prev) ==
  IF expired(observer) THEN <<>>
  ELSE <<Call("onEntry", lock(observer), 0),
         Call("setData", lock(observer), planner_data_),
         Call("setPreviousModuleOutput", lock(observer), prev),
         Call("add_reporter", lock(observer), 0)>>

\* registerNewModule: the calls made on the candidate
registerNewModule_calls(observer, prev) ==
  IF expired(observer) THEN <<>>
  ELSE <<Call("setData", lock(observer), planner_data_),
         Call("setPreviousModuleOutput", lock(observer), prev),
         Call("add_reporter", lock(observer), 0),
         Call("onEntry", lock(observer), 0)>>

\* variant: no expired() check before the push_back
registerNewModule_observers_unchecked(observer) == Append(observers_, observer)

\* variant: a candidate already tracked is not added again
registerNewModule_observers_dedup(observer) ==
  IF expired(observer) \/ \E k \in 1..Len(observers_) : observers_[k] = observer
  THEN observers_ ELSE Append(observers_, observer)

\* registerNewModule: observers_ when it returns
registerNewModule_observers(observer) ==
  IF expired(observer) THEN observers_ ELSE Append(observers_, observer)

\* registerNewModule(observer, previous_module_output)
registerNewModule(observer, prev) ==
  /\ ~crashed
  /\ Len(registerNewModule_observers(observer)) <= MaxObs
  /\ observers_' = registerNewModule_observers(observer)
  /\ ev' = Event("registerNewModule", observer, prev, "none",
                 registerNewModule_calls(observer, prev), <<>>)
  /\ UNCHANGED <<owner, module, idle_module_ptr_, planner_data_, crashed, config_>>

RECURSIVE remove_if_not_expired(_)
\* variant: the predicate negated, the live entries are erased
remove_if_not_expired(obs) ==
  IF obs = <<>> THEN <<>>
  ELSE IF ~expired(Head(obs)) THEN remove_if_not_expired(Tail(obs))
       ELSE <<Head(obs)>> \o remove_if_not_expired(Tail(obs))

RECURSIVE remove_if_expired_swap(_)
\* variant: swap-with-last removal, which does not keep the order
remove_if_expired_swap(obs) ==
  IF obs = <<>> THEN <<>>
  ELSE IF expired(Head(obs))
       THEN (IF Len(obs) = 1 THEN <<>>
             ELSE remove_if_expired_swap(<<obs[Len(obs)]>> \o SubSeq(obs, 2, Len(obs) - 1)))
       ELSE <<Head(obs)>> \o remove_if_expired_swap(Tail(obs))

RECURSIVE erase_first_expired(_)
\* variant: find_if + erase, only the first expired entry is erased
erase_first_expired(obs) ==
  IF obs = <<>> THEN <<>>
  ELSE IF expired(Head(obs)) THEN Tail(obs)
       ELSE <<Head(obs)>> \o erase_first_expired(Tail(obs))

RECURSIVE remove_if_expired(_)
\* std::remove_if + erase with the predicate observer.expired()
remove_if_expired(obs) ==
  IF obs = <<>> THEN <<>>
  ELSE IF expired(Head(obs)) THEN remove_if_expired(Tail(obs))
       ELSE <<Head(obs)>> \o remove_if_expired(Tail(obs))

\* updateObserver(); the event's arg is the number of entries erased
updateObserver ==
  /\ ~crashed
  /\ observers_' = remove_if_expired(observers_)
  /\ ev' = Event("updateObserver", Len(observers_) - Len(remove_if_expired(observers_)),
                 0, "none", <<>>, <<>>)
  /\ UNCHANGED <<owner, module, idle_module_ptr_, planner_data_, crashed, config_>>

RECURSIVE any_of_equal(_, _)
\* variant: no expired() test, only lock() == module_ptr
any_of_equal(obs, module_ptr) ==
  IF obs = <<>> THEN FALSE
  ELSE IF lock(Head(obs)) = module_ptr THEN TRUE
       ELSE any_of_equal(Tail(obs), module_ptr)

RECURSIVE any_of_live_equal(_, _)
\* std::any_of over observers_ with !expired() && lock() == module_ptr
any_of_live_equal(obs, module_ptr) ==
  IF obs = <<>> THEN FALSE
  ELSE IF ~expired(Head(obs)) /\ lock(Head(obs)) = module_ptr THEN TRUE
       ELSE any_of_live_equal(Tail(obs), module_ptr)

\* exist(module_ptr)
exist(module_ptr) ==
  /\ ~crashed
  /\ ev' = Event("exist", module_ptr, 0, Bool(any_of_live_equal(observers_, module_ptr)),
                 <<>>, <<>>)
  /\ UNCHANGED <<owner, module, observers_, idle_module_ptr_, planner_data_, crashed, config_>>

\* variant: no entry that is not expired
observers_none_live == \A k \in 1..Len(observers_) : expired(observers_[k])

\* observers_.empty()
observers_empty == observers_ = <<>>

\* canLaunchNewModule()
canLaunchNewModule ==
  /\ ~crashed
  /\ ev' = Event("canLaunchNewModule", Null, 0, Bool(observers_empty), <<>>, <<>>)
  /\ UNCHANGED <<owner, module, observers_, idle_module_ptr_, planner_data_, crashed, config_>>

RECURSIVE reset_onExit(_)
\* reset: the for_each over observers_, onExit on each entry not expired
reset_onExit(obs) ==
  IF obs = <<>> THEN <<>>
  ELSE (IF ~expired(Head(obs)) THEN <<Call("onExit", lock(Head(obs)), 0)>> ELSE <<>>)
       \o reset_onExit(Tail(obs))

\* reset: the idle instance is exited and released
reset_idle_calls ==
  IF idle_module_ptr_ # Null THEN <<Call("onExit", idle_module_ptr_, 0)>> ELSE <<>>

\* reset()
reset ==
  /\ ~crashed
  /\ observers_' = <<>>
  /\ owner' = [i \in Inst |-> IF i = idle_module_ptr_ THEN "none" ELSE owner[i]]
  /\ module' = [i \in Inst |-> IF i = idle_module_ptr_ THEN NoOutput ELSE module[i]]
  /\ idle_module_ptr_' = Null
  /\ ev' = Event("reset", Null, 0, "none", reset_onExit(observers_) \o reset_idle_calls,
                 <<Pub("debug_marker", <<>>)>>)
  /\ UNCHANGED <<planner_data_, crashed, config_>>

\* ------------------------------------------------------ publish methods
\* rtc_interface_ptr_map_ as initInterface wired it: one RTCInterface (named
\* by a negative number) per rtc type
rtc_interface_ptr_map_ == [name \in {"left", "right"} |-> IF name = "left" THEN -1 ELSE -2]

\* the orders in which the unordered_map may be iterated
RtcOrders == {<<"left", "right">>, <<"right", "left">>}

RECURSIVE publishRTCStatus_calls(_)
\* publishRTCStatus: the calls made on the RTC interfaces, names in
\* iteration order
publishRTCStatus_calls(names) ==
  IF names = <<>> THEN <<>>
  ELSE LET ptr == rtc_interface_ptr_map_[Head(names)] IN
       (IF ptr # Null
        THEN <<Call("removeExpiredCooperateStatus", ptr, 0),
               Call("publishCooperateStatus", ptr, 0)>>
        ELSE <<>>)
       \o publishRTCStatus_calls(Tail(names))

\* publishRTCStatus()
publishRTCStatus(names) ==
  /\ ~crashed
  /\ ev' = Event("publishRTCStatus", Null, 0, "none", publishRTCStatus_calls(names), <<>>)
  /\ UNCHANGED <<owner, module, observers_, idle_module_ptr_, planner_data_, crashed, config_>>

\* isSimultaneousExecutableAsApprovedModule()
isSimultaneousExecutableAsApprovedModule ==
  config_.enable_simultaneous_execution_as_approved_module

\* isSimultaneousExecutableAsCandidateModule()
isSimultaneousExecutableAsCandidateModule ==
  config_.enable_simultaneous_execution_as_candidate_module

\* what each publish method does over an observer list obs: the calls it
\* makes on instances and the batches it hands to its publishers
publishSteeringFactor_calls(obs) == GetterCalls(obs, <<"get_steering_factor">>)
publishSteeringFactor_pubs(obs) == <<Pub("steering_factors", SteeringFactors(obs))>>

publishVelocityFactor_calls(obs) == GetterCalls(obs, <<"get_velocity_factor">>)
publishVelocityFactor_pubs(obs) == <<Pub("velocity_factors", VelocityFactors(obs))>>

publishVirtualWall_calls(obs) ==
  GetterCalls(obs, <<"getStopPose", "getSlowPose", "getDeadPose",
                     "getModuleVirtualWall", "resetWallPoses">>)
publishVirtualWall_pubs(obs) == <<Pub("virtual_wall", VirtualWall(obs, marker_offset))>>

publishMarker_calls(obs) ==
  GetterCalls(obs, <<"getInfoMarkers", "getDebugMarkers", "getDrivableLanesMarkers">>)
  \o IdleMarkerCalls(obs)
publishMarker_pubs(obs) ==
  <<Pub("info_marker", Markers(obs, "info", marker_offset) \o IdleMarkers(obs, "info")),
    Pub("debug_marker", Markers(obs, "debug", marker_offset) \o IdleMarkers(obs, "debug")),
    Pub("drivable_lanes", Markers(obs, "lanes", marker_offset) \o IdleMarkers(obs, "lanes"))>>

publishSteeringFactor ==
  /\ ~crashed
  /\ ev' = Event("publishSteeringFactor", Null, 0, "none",
                 publishSteeringFactor_calls(observers_),
                 publishSteeringFactor_pubs(observers_))
  /\ UNCHANGED <<owner, module, observers_, idle_module_ptr_, planner_data_, crashed, config_>>

publishVelocityFactor ==
  /\ ~crashed
  /\ ev' = Event("publishVelocityFactor", Null, 0, "none",
                 publishVelocityFactor_calls(observers_),
                 publishVelocityFactor_pubs(observers_))
  /\ UNCHANGED <<owner, module, observers_, idle_module_ptr_, planner_data_, crashed, config_>>

\* variant: resetWallPoses() is not called
WallReset_none(obs) == {}

\* the instances publishVirtualWall calls resetWallPoses on
WallReset(obs) == {lock(obs[k]) : k \in 1..Len(obs)} \ {Null}

publishVirtualWall ==
  /\ ~crashed
  /\ ev' = Event("publishVirtualWall", Null, 0, "none",
                 publishVirtualWall_calls(observers_),
                 publishVirtualWall_pubs(observers_))
  /\ module' = [i \in Inst |-> IF i \in WallReset(observers_)
                               THEN resetWallPoses(module[i]) ELSE module[i]]
  /\ UNCHANGED <<owner, observers_, idle_module_ptr_, planner_data_, crashed, config_>>

\* variant: the pass erases the expired entries it skips
publishMarker_pruning ==
  /\ ~crashed
  /\ ev' = Event("publishMarker", Null, 0, "none",
                 publishMarker_calls(observers_), publishMarker_pubs(observers_))
  /\ observers_' = remove_if_expired(observers_)
  /\ UNCHANGED <<owner, module, idle_module_ptr_, planner_data_, crashed, config_>>

publishMarker ==
  /\ ~crashed
  /\ ev' = Event("publishMarker", Null, 0, "none",
                 publishMarker_calls(observers_), publishMarker_pubs(observers_))
  /\ UNCHANGED <<owner, module, observers_, idle_module_ptr_, planner_data_, crashed, config_>>

\* --------------------------------------------- the instances' owner
\* the external owner drops its shared_ptr: the instance is destroyed
Destroy(i) ==
  /\ ~crashed
  /\ owner[i] = "shared"
  /\ owner' = [owner EXCEPT ![i] = "none"]
  /\ module' = [module EXCEPT ![i] = NoOutput]
  /\ ev' = Event("destroy", i, 0, "none", <<>>, <<>>)
  /\ UNCHANGED <<observers_, idle_module_ptr_, planner_data_, crashed, config_>>

\* the external owner runs an instance it holds: the instance recomputes
\* its factors, wall poses and markers
Run(i, p) ==
  /\ ~crashed
  /\ owner[i] = "shared"
  /\ module' = [module EXCEPT ![i] = p]
  /\ ev' = Event("run", i, 0, "none", <<>>, <<>>)
  /\ UNCHANGED <<owner, observers_, idle_module_ptr_, planner_data_, crashed, config_>>

\* weak references a caller can pass: empty, to an instance a shared_ptr
\* holds, or to a destroyed instance (a handle not free is one)
Candidates ==
  {Null} \cup {i \in Inst : owner[i] = "shared"}
         \cup {i \in Inst : owner[i] = "none" /\ ~Free(i)}

\* shared_ptr values a caller can pass: null, or an instance it holds
Shared == {Null} \cup {i \in Inst : owner[i] = "shared"}

Next ==
  \/ \E p \in PlannerData : setData(p)
  \/ updateIdleModuleInstance
  \/ \E prev \in PrevOutput, r \in BOOLEAN, dies \in BOOLEAN :
       isExecutionRequested(prev, r, dies, NoOutput)
  \/ getIdleModule
  \/ \E o \in Candidates, prev \in PrevOutput : registerNewModule(o, prev)
  \/ updateObserver
  \/ \E x \in Shared : exist(x)
  \/ canLaunchNewModule
  \/ reset
  \/ publishSteeringFactor
  \/ publishVelocityFactor
  \/ publishVirtualWall
  \/ publishMarker
  \/ \E i \in Inst : Destroy(i)

Spec == Init /\ [][Next]_vars

\* ---------------------------------------------------------------------
\* The aggregation passes over instances that report something: the idle
\* instance computes outputs when probed, the owner runs the instances it
\* holds, and the orchestrator registers an instance once (it asks exist
\* first) and probes only a populated idle slot.
NextAgg ==
  \/ updateIdleModuleInstance
  \/ \E p \in Planned :
       idle_module_ptr_ # Null /\ isExecutionRequested(1, TRUE, FALSE, p)
  \/ getIdleModule
  \/ \E o \in Shared :
       /\ o # Null
       /\ ~any_of_live_equal(observers_, o)
       /\ registerNewModule(o, 1)
  \/ updateObserver
  \/ \E names \in RtcOrders : publishRTCStatus(names)
  \/ publishSteeringFactor
  \/ publishVelocityFactor
  \/ publishVirtualWall
  \/ publishMarker
  \/ \E i \in Inst : Destroy(i)
  \/ \E i \in Inst, p \in Planned : Run(i, p)

SpecAgg == Init /\ [][NextAgg]_vars

\* =====================================================================
\* Properties
\* =====================================================================
IsLive(o) == ~expired(o)
LiveEntries(obs) == SelectSeq(obs, IsLive)
LiveCount == Len(LiveEntries(observers_))
ExpiredCount == Len(observers_) - LiveCount
LiveObserved == {observers_[k] : k \in 1..Len(observers_)} \cap {i \in Inst : IsLive(i)}
DestroyedObserved == {observers_[k] : k \in 1..Len(observers_)} \ LiveObserved

\* how many times method m was called on instance i
CountCalls(calls, m, i) ==
  Cardinality({k \in 1..Len(calls) : calls[k].m = m /\ calls[k].on = i})

\* the entries of obs that do not refer to d
Other(obs, d) == LET NotD(o) == o # d IN SelectSeq(obs, NotD)

PublishOps ==
  {"publishSteeringFactor", "publishVelocityFactor", "publishVirtualWall", "publishMarker"}

PubsOf(op, obs) ==
  CASE op = "publishSteeringFactor" -> publishSteeringFactor_pubs(obs)
    [] op = "publishVelocityFactor" -> publishVelocityFactor_pubs(obs)
    [] op = "publishVirtualWall" -> publishVirtualWall_pubs(obs)
    [] op = "publishMarker" -> publishMarker_pubs(obs)

\* ---------------------------------------------------------------- C1
\* C1 (as claimed): in every reachable state canLaunchNewModule() is true
\* iff the number of live entries of observers_ is zero.
C1_LaunchIffNoLive ==
  /\ observers_empty <=> LiveCount = 0
  /\ ev.op = "canLaunchNewModule" => (ev.ret = "true" <=> LiveCount = 0)

\* C1 (amended): canLaunchNewModule() is true iff observers_ holds no live
\* entry and no destroyed entry that updateObserver has not yet pruned; so
\* it is true only when the live count is zero, and where nothing awaits
\* pruning it is true iff the live count is zero.
C1_LaunchIffNoLiveAndNoUnpruned ==
  /\ observers_empty <=> (LiveCount = 0 /\ ExpiredCount = 0)
  /\ ev.op = "canLaunchNewModule" =>
       (ev.ret = "true" <=> (LiveCount = 0 /\ ExpiredCount = 0))

\* canLaunchNewModule() answered false with no live entry left
C1_Witness ==
  ev.op = "canLaunchNewModule" /\ ev.ret = "false" /\ LiveCount = 0 /\ ExpiredCount > 0

\* ---------------------------------------------------------------- C2
\* C2 (as claimed): reset() calls onExit exactly once on each live observed
\* instance, however often it was registered, empties observers_ and leaves
\* no idle instance.
C2_ResetExitsEachLiveOnce ==
  [][ev'.op = "reset" =>
       /\ \A i \in LiveObserved : CountCalls(ev'.calls, "onExit", i) = 1
       /\ observers_' = <<>>
       /\ idle_module_ptr_' = Null]_vars

\* ---------------------------------------------------------------- C3
\* C3 (as claimed): isExecutionRequested never probes an absent idle
\* instance: when the slot is empty the call recreates it first.
C3_ProbeNeverAbsent ==
  ev.op = "isExecutionRequested" => (ev.arg # Null /\ idle_module_ptr_ # Null)

\* ---------------------------------------------------------------- C4
\* C4 (as claimed): with an observed instance destroyed and not yet pruned,
\* each publish method calls nothing on a destroyed instance and publishes
\* the batches it would publish were that instance's entries not in
\* observers_.
C4_PublishAsIfAbsent ==
  [][ev'.op \in PublishOps =>
       /\ \A k \in 1..Len(ev'.calls) : ev'.calls[k].on \in Inst /\ owner[ev'.calls[k].on] # "none"
       /\ \A d \in DestroyedObserved : ev'.pubs = PubsOf(ev'.op, Other(observers_, d))]_vars

\* ---------------------------------------------------------------- C5
\* C5: registerNewModule with a candidate whose instance is destroyed (or
\* with an empty weak reference) changes nothing: observers_, the idle
\* instance, the planner data and every instance are as before, and no call
\* is made on any instance.
C5_ExpiredCandidateNoOp ==
  [][(ev'.op = "registerNewModule" /\ expired(ev'.arg)) =>
       /\ observers_' = observers_
       /\ idle_module_ptr_' = idle_module_ptr_
       /\ planner_data_' = planner_data_
       /\ owner' = owner /\ module' = module
       /\ ev'.calls = <<>>]_vars

\* a destroyed instance, still an entry, was offered for registration
C5_Witness ==
  /\ ev.op = "registerNewModule" /\ ev.arg # Null /\ owner[ev.arg] = "none"
  /\ ev.arg \in DestroyedObserved /\ LiveCount > 0 /\ idle_module_ptr_ # Null

\* ---------------------------------------------------------------- C6
\* C6: a successful registerNewModule leaves the candidate as the last
\* entry of observers_; an instance that is an entry stays one across every
\* operation but reset(), and updateObserver once it has been destroyed;
\* and every publish pass calls the getters of every live entry.
C6_TrackedUntilPrunedOrReset ==
  [][/\ (ev'.op = "registerNewModule" /\ ~expired(ev'.arg)) =>
          (observers_' # <<>> /\ observers_'[Len(observers_')] = ev'.arg)
     /\ \A i \in Range(observers_) :
          i \notin Range(observers_') =>
             (ev'.op = "reset" \/ (ev'.op = "updateObserver" /\ expired(i)))
     /\ ev'.op \in PublishOps =>
          \A i \in LiveObserved : \E k \in 1..Len(ev'.calls) : ev'.calls[k].on = i]_vars

\* a pass visits the instance registered last, still tracked, while an
\* instance registered before it is destroyed and not yet pruned
C6_Witness ==
  /\ ev.op = "publishVirtualWall" /\ Len(observers_) = 2
  /\ expired(observers_[1]) /\ IsLive(observers_[2])
  /\ CountCalls(ev.calls, "getStopPose", observers_[2]) = 1

\* ---------------------------------------------------------------- C7
\* C7: every registerNewModule with a live candidate makes observers_
\* longer by exactly one entry, whatever is tracked already.
C7_LiveCandidateAlwaysAdded ==
  [][(ev'.op = "registerNewModule" /\ ~expired(ev'.arg)) =>
       /\ Len(observers_') = Len(observers_) + 1
       /\ SubSeq(observers_', 1, Len(observers_)) = observers_]_vars

\* the same live instance registered twice, next to another live instance
C7_Witness ==
  /\ ev.op = "registerNewModule" /\ Len(observers_) = 3
  /\ observers_[1] = ev.arg /\ observers_[3] = ev.arg /\ observers_[2] # ev.arg
  /\ IsLive(observers_[1]) /\ IsLive(observers_[2])

\* ---------------------------------------------------------------- C8
\* C8: updateObserver leaves in observers_ exactly the entries that are
\* not expired, in their previous relative order.
C8_PruneKeepsLiveInOrder ==
  [][ev'.op = "updateObserver" =>
       /\ observers_' = LiveEntries(observers_)
       /\ ev'.arg = ExpiredCount]_vars

\* one entry was erased, two different live entries survive
C8_Witness ==
  /\ ev.op = "updateObserver" /\ ev.arg = 1 /\ Len(observers_) = 2
  /\ observers_[1] > observers_[2] /\ LiveCount = 2

\* ---------------------------------------------------------------- C9
\* C9: updateObserver called again right after updateObserver, nothing
\* destroyed in between, leaves observers_ as the first call left it.
C9_PruneIdempotent ==
  /\ [](ev.op = "updateObserver" => remove_if_expired(observers_) = observers_)
  /\ [][(ev.op = "updateObserver" /\ ev'.op = "updateObserver") =>
          (observers_' = observers_ /\ ev'.arg = 0)]_vars

\* the first call erased two entries and kept one
C9_Witness ==
  ev.op = "updateObserver" /\ ev.arg = 2 /\ Len(observers_) = 1

\* --------------------------------------------------------------- C10
\* C10: exist(x) is true iff some entry of observers_ is live and refers to
\* x, for an instance and for a null pointer; it is false for a destroyed
\* instance that is still an entry, and for every x after reset().
C10_ExistIffLiveEntry ==
  /\ \A x \in Handle :
       any_of_live_equal(observers_, x) <=>
         \E k \in 1..Len(observers_) : IsLive(observers_[k]) /\ observers_[k] = x
  /\ ev.op = "exist" => (ev.ret = "true" <=> ev.arg \in LiveObserved)
  /\ \A x \in DestroyedObserved : ~any_of_live_equal(observers_, x)
  /\ ev.op = "reset" => \A x \in Handle : ~any_of_live_equal(observers_, x)

\* exist(nullptr) answered false while a destroyed entry is not yet pruned
C10_Witness ==
  ev.op = "exist" /\ ev.arg = Null /\ ev.ret = "false" /\ ExpiredCount > 0 /\ LiveCount > 0

\* --------------------------------------------------------------- C11
\* C11: canLaunchNewModule() returns true iff observers_ has no entry at
\* all, an expired entry not yet pruned counting as an entry, and the call
\* changes nothing of the manager or of any instance.
C11_LaunchIffNoEntries ==
  [][ev'.op = "canLaunchNewModule" =>
       /\ ev'.ret = Bool(Len(observers_) = 0)
       /\ observers_' = observers_
       /\ idle_module_ptr_' = idle_module_ptr_
       /\ planner_data_' = planner_data_
       /\ config_' = config_
       /\ owner' = owner /\ module' = module
       /\ ev'.calls = <<>> /\ ev'.pubs = <<>>]_vars

\* asked with one live and one destroyed entry, and with only destroyed ones
C11_Witness ==
  /\ ev.op = "canLaunchNewModule" /\ ev.ret = "false"
  /\ Len(observers_) = 2 /\ LiveCount = 0 /\ idle_module_ptr_ # Null

\* --------------------------------------------------------------- C12
\* the items of a batch that come from instance i
FromInst(batch, i) == LET Of(x) == x.src = i IN SelectSeq(batch, Of)

\* the markers publishMarker is to emit for the idle instance, per set
IdleBatch(set) ==
  [k \in 1..Len(module[idle_module_ptr_][set]) |->
     Item(idle_module_ptr_, set, module[idle_module_ptr_][set][k])]

MarkerSets == <<"info", "debug", "lanes">>

\* C12 (as claimed): in publishMarker, with no live observed instance and
\* an idle instance present, each of the three batches equals the idle
\* instance's markers of that set, destroyed entries not yet pruned
\* included; with a live observed instance no batch holds an idle marker.
C12_IdleSubstitutionByLiveCount ==
  (ev.op = "publishMarker" /\ idle_module_ptr_ # Null) =>
     \A n \in 1..3 :
        IF LiveCount = 0
        THEN ev.pubs[n].batch = IdleBatch(MarkerSets[n])
        ELSE FromInst(ev.pubs[n].batch, idle_module_ptr_) = <<>>

\* --------------------------------------------------------------- C13
\* no two markers of different instances in one batch have the same id
NoCrossCollision(batch) ==
  \A a, b \in 1..Len(batch) :
     batch[a].src # batch[b].src => batch[a].id # batch[b].id

\* every local identifier of instance i's marker set is below the block size
BelowBlock(i, set) ==
  \A k \in 1..Len(module[i][set]) : module[i][set][k] \in 0..(marker_offset - 1)

\* C13 (as claimed): in publishMarker, markers of different live observed
\* instances never have the same identifier in a combined batch.
C13_NoCollision ==
  ev.op = "publishMarker" => \A n \in 1..3 : NoCrossCollision(ev.pubs[n].batch)

\* C13 (amended): in publishMarker, markers of two different live observed
\* instances have different identifiers in a combined batch provided the
\* local identifiers of both instances' set are in 0..254.
C13_NoCollisionBelowBlock ==
  ev.op = "publishMarker" =>
     \A n \in 1..3 : \A a, b \in 1..Len(ev.pubs[n].batch) :
        LET x == ev.pubs[n].batch[a]
            y == ev.pubs[n].batch[b]
        IN (/\ x.src # y.src
            /\ x.src \in LiveObserved /\ y.src \in LiveObserved
            /\ BelowBlock(x.src, MarkerSets[n]) /\ BelowBlock(y.src, MarkerSets[n]))
           => x.id # y.id

\* two live instances published the same local identifiers 0 and 1
C13_Witness ==
  /\ ev.op = "publishMarker" /\ LiveCount = 2
  /\ \E i, j \in LiveObserved :
        /\ i # j /\ module[i].info = <<0, 1>> /\ module[j].info = <<0, 1>>
        /\ Len(ev.pubs[1].batch) = 4

\* --------------------------------------------------------------- C14
\* the entries of observers_ that are live and report a classification
\* other than UNKNOWN in the given field, in observers_ order
Classified(field) ==
  LET Known(o) == IsLive(o) /\ module[o][field] # "UNKNOWN"
  IN SelectSeq(observers_, Known)

\* a batch holds exactly the factors of the entries es, in that order
FactorsOf(batch, es, field) ==
  /\ Len(batch) = Len(es)
  /\ \A k \in 1..Len(es) :
        batch[k].src = es[k] /\ batch[k].kind = module[es[k]][field]

Synthesized(batch) ==
  LET Syn(x) == x.kind \in {"stop", "slow", "dead"} IN SelectSeq(batch, Syn)

\* C16 (as claimed): in publishVirtualWall the identifier given to the
\* stop/slow/dead markers of a live observed instance is strictly greater
\* than the one given to the live instance before it, so markers of
\* different instances never have the same identifier.
C16_WallIdsIncreasePerInstance ==
  ev.op = "publishVirtualWall" =>
     LET syn == Synthesized(ev.pubs[1].batch) IN
     \A a, b \in 1..Len(syn) :
        (a < b /\ syn[a].src # syn[b].src) => syn[a].id < syn[b].id

\* --------------------------------------------------------------- C17
\* the index of the call of method m on instance i in calls (0: none)
CallIndex(calls, m, i) ==
  LET at == {k \in 1..Len(calls) : calls[k].m = m /\ calls[k].on = i}
  IN IF at = {} THEN 0 ELSE CHOOSE k \in at : \A l \in at : k <= l

C15_IdleHandedOverExclusively ==
  /\ [](idle_module_ptr_ # Null => owner[idle_module_ptr_] = "unique")
  /\ [][/\ ev'.op = "getIdleModule" =>
             /\ ev'.arg = idle_module_ptr_ /\ idle_module_ptr_' = Null
             /\ idle_module_ptr_ # Null => owner'[idle_module_ptr_] = "shared"
        /\ (idle_module_ptr_ = Null /\ idle_module_ptr_' # Null) =>
             /\ ev'.op = "updateIdleModuleInstance"
             /\ Free(idle_module_ptr_')]_vars

\* the idle instance was handed out while another instance is observed
C15_Witness ==
  /\ ev.op = "getIdleModule" /\ ev.arg # Null /\ owner[ev.arg] = "shared"
  /\ idle_module_ptr_ = Null /\ LiveCount > 0 /\ ev.arg \notin LiveObserved

\* --------------------------------------------------------------- C18
AggregationOps == PublishOps \cup {"publishRTCStatus"}

\* p and q differ at most in the stop/slow/dead wall poses
SameButWallPoses(p, q) ==
  [p EXCEPT !.stop = q.stop, !.slow = q.slow, !.dead = q.dead] = q

\* C18: publishRTCStatus, publishSteeringFactor, publishVelocityFactor,
\* publishVirtualWall and publishMarker leave observers_ (entries and
\* order), idle_module_ptr_, planner_data_ and config_ as they were; no
\* instance is created or destroyed, and the only instance state changed is
\* the wall poses, by publishVirtualWall.
C18_AggregationFrame ==
  [][ev'.op \in AggregationOps =>
       /\ observers_' = observers_
       /\ idle_module_ptr_' = idle_module_ptr_
       /\ planner_data_' = planner_data_
       /\ config_' = config_
       /\ owner' = owner
       /\ ev'.op # "publishVirtualWall" => module' = module
       /\ \A i \in Inst : SameButWallPoses(module[i], module'[i])]_vars

\* publishVirtualWall emitted a stop marker of an observed instance and
\* cleared its pose, the destroyed entry and the idle instance staying
C18_Witness ==
  /\ ev.op = "publishVirtualWall"
  /\ \E k \in 1..Len(ev.pubs[1].batch) :
        /\ ev.pubs[1].batch[k].kind = "stop"
        /\ ~module[ev.pubs[1].batch[k].src].stop
  /\ ExpiredCount > 0 /\ idle_module_ptr_ # Null

\* --------------------------------------------------------------- C19
\* the methods called on instance i, in call order
MethodsOn(calls, i) ==
  LET OnI(c) == c.on = i IN [k \in 1..Len(SelectSeq(calls, OnI)) |-> SelectSeq(calls, OnI)[k].m]

\* C19: a registerNewModule of a live candidate calls, on the candidate,
\* setData, setPreviousModuleOutput, add_reporter and then onEntry, once
\* each, and the candidate is appended; an instance becomes an entry of
\* observers_ in no other way; onExit is called only by reset(), and there
\* only on live entries and on the idle instance; updateObserver calls
\* nothing. Hence every onExit on an observed instance follows its onEntry.
C19_EntryBeforeExit ==
  [][/\ (ev'.op = "registerNewModule" /\ ~expired(ev'.arg)) =>
          /\ MethodsOn(ev'.calls, ev'.arg) =
                <<"setData", "setPreviousModuleOutput", "add_reporter", "onEntry">>
          /\ Len(ev'.calls) = 4
          /\ ev'.calls[1].a = planner_data_ /\ ev'.calls[2].a = ev'.prev
          /\ observers_' = Append(observers_, ev'.arg)
     /\ \A i \in Range(observers_') \ Range(observers_) :
          ev'.op = "registerNewModule" /\ CountCalls(ev'.calls, "onEntry", i) = 1
     /\ \A i \in Range(observers_) : owner[i] = "none" => owner'[i] = "none"
     /\ \A k \in 1..Len(ev'.calls) :
          ev'.calls[k].m = "onExit" =>
            /\ ev'.op = "reset"
            /\ ev'.calls[k].on \in LiveObserved \cup {idle_module_ptr_}
     /\ ev'.op = "updateObserver" => ev'.calls = <<>>]_vars

\* reset() exited two different observed instances
C19_Witness ==
  /\ ev.op = "reset" /\ Len(ev.calls) >= 2
  /\ ev.calls[1].m = "onExit" /\ ev.calls[2].m = "onExit"
  /\ ev.calls[1].on # ev.calls[2].on
  /\ owner[ev.calls[1].on] = "shared" /\ owner[ev.calls[2].on] = "shared"

\* --------------------------------------------------------------- C20
\* the rank of entry k among the live entries of obs
LiveRank(obs, k) == Cardinality({l \in 1..k : IsLive(obs[l])})

\* C20 (as claimed): in publishMarker the markers of the k-th live entry
\* are offset by 255 * k whatever its position in observers_, a destroyed
\* entry consuming no block, and publishMarker emits the same batches
\* before and after updateObserver prunes the destroyed entries.
C20_SameMarkersAcrossPrune ==
  /\ [](ev.op = "publishMarker" =>
          \A n \in 1..3 : \A k \in 1..Len(observers_) :
             IsLive(observers_[k]) =>
               FromInst(ev.pubs[n].batch, observers_[k]) =
                 OffsetMarkers(observers_[k], MarkerSets[n],
                               marker_offset * LiveRank(observers_, k)))
  /\ [][ev'.op = "updateObserver" =>
          publishMarker_pubs(observers_') = publishMarker_pubs(observers_)]_vars


====
